---- MODULE Spec2Model ----
(***************************************************************************)
(* Model of simulate() in mdc_queue.py: a discrete-event simulation of an  *)
(* M/D/c queue (Poisson arrivals, fixed service time d = 1/u, c servers,   *)
(* FIFO backlog).                                                          *)
(*                                                                         *)
(* Time is counted in integer ticks of 1/TimeScale of the time unit of the *)
(* rates, so that d = 1/u is a whole number of ticks for every rate the    *)
(* model draws.  A draw of random.expovariate(l) is any tick count of the  *)
(* sign the distribution has for that l (0.0 included: expovariate can     *)
(* return it).  The event heap is kept as the sorted sequence of its       *)
(* tuples: heappop returns a least tuple, which is all the code uses.      *)
(* A statistic that finalisation divides becomes the exact fraction        *)
(* [num, den].  The wall-clock reading elapsed_time is any tick count in   *)
(* 0..MaxElapsed.                                                          *)
(***************************************************************************)
EXTENDS Integers, Sequences, FiniteSets, TLC

VARIABLES
    params,             \* the dictionary handed to simulate()
    pc,                 \* where simulate() is ("start", "loop", "finalize",
                        \* "returned"), or the exception that ended it and its line
    events,             \* the event heap
    queue,              \* the waiting queue (deque of arrival timestamps)
    servers_occupied,
    last_queue_update,
    stats,
    trace               \* history: the events dispatched so far, in order

vars == <<params, pc, events, queue, servers_occupied, last_queue_update, stats, trace>>

----------------------------------------------------------------------------
(* Bounds of the model *)

MaxC == 2           \* server counts 1..MaxC
TimeScale == 2      \* ticks per time unit; service rates are its divisors
MaxDt == 3          \* interarrival draws 0..MaxDt ticks
MaxEnd == 5         \* horizons -1..MaxEnd ticks
MaxTwait == 2       \* wait thresholds 0..MaxTwait ticks
MaxArrivals == 5    \* arrivals dispatched in one run
MaxElapsed == 1     \* wall-clock durations 0..MaxElapsed

----------------------------------------------------------------------------
(* Event kinds and tuples *)

ev_input == 0
ev_done == 1

None == "None"

Event(time, kind, payload) == <<time, kind, payload>>

\* at equal times a Completion is ordered before an Arrival
TupleLess_DoneFirst(a, b) ==
    \/ a[1] < b[1]
    \/ a[1] = b[1] /\ a[2] > b[2]
    \/ a[1] = b[1] /\ a[2] = b[2] /\ a[2] = ev_done /\ a[3] < b[3]

\* Python's tuple order on (time, kind, payload).  Two tuples of kind
\* ev_input with the same time are equal (both payloads are None).
TupleLess(a, b) ==
    \/ a[1] < b[1]
    \/ a[1] = b[1] /\ a[2] < b[2]
    \/ a[1] = b[1] /\ a[2] = b[2] /\ a[2] = ev_done /\ a[3] < b[3]

\* the event is put at the end of the list, whatever its time (list.append)
heappush_Append(heap, e) == Append(heap, e)

RECURSIVE heappush(_, _)
heappush(heap, e) ==
    IF heap = <<>> THEN <<e>>
    ELSE IF TupleLess(e, Head(heap)) THEN <<e>> \o heap
    ELSE <<Head(heap)>> \o heappush(Tail(heap), e)

\* the pop takes any pending event of the earliest time, whatever its kind
heappop_AnyEarliest(heap) ==
    {i \in 1..Len(heap) : \A j \in 1..Len(heap) : heap[i][1] <= heap[j][1]}

\* line 69: heapq.heappop returns a least tuple of the heap.  The positions
\* it may take it from: those of the tuples that no other tuple is below.
heappop(heap) ==
    {i \in 1..Len(heap) : \A j \in 1..Len(heap) : ~TupleLess(heap[j], heap[i])}

\* the heap without the tuple at position i
Without(heap, i) == SubSeq(heap, 1, i - 1) \o SubSeq(heap, i + 1, Len(heap))

----------------------------------------------------------------------------
(* Parameters *)

Val(typ, val) == [typ |-> typ, val |-> val]

Number == {"int", "float"}

\* get_param: the value is accepted when it is present and of a wanted type.
get_param_ok(p, name, typ) == p[name].typ # "NoneType" /\ p[name].typ \in typ

get_param(p, name) == p[name].val

ParamsOk(p) ==
    /\ get_param_ok(p, "l", Number)
    /\ get_param_ok(p, "u", Number)
    /\ get_param_ok(p, "c", {"int"})
    /\ get_param_ok(p, "twait", Number)
    /\ get_param_ok(p, "endtime", Number)

\* d = 1/u, in ticks
ServiceTime(u) == IF u > 0 THEN TimeScale \div u ELSE 0 - (TimeScale \div (0 - u))

\* the values random.expovariate(l) can return, in ticks
Expovariate(l) == IF l > 0 THEN 0..MaxDt ELSE (0 - MaxDt)..0

l == get_param(params, "l")
u == get_param(params, "u")
d == ServiceTime(u)
c == get_param(params, "c")
twait == get_param(params, "twait")
endtime == get_param(params, "endtime")

Rates == {k \in 1..TimeScale : TimeScale % k = 0}

InitialStats ==
    [input_events |-> 0, done_events |-> 0,
     completed_without_queueing |-> 0, completed_with_queueing |-> 0,
     avg_wait_time |-> 0, avg_completion_time |-> 0, avg_queue_depth |-> 0,
     max_queue_depth |-> 0, served_immediately |-> 0,
     wait_gt_twait |-> 0, wait_lt_twait |-> 0]

----------------------------------------------------------------------------
(* Pieces of the loop body *)

Max(a, b) == IF a >= b THEN a ELSE b

\* the comparison with the horizon is turned round
Expired_Reversed(now, end) == now < end

\* an event at exactly the horizon is taken to lie beyond it
Expired_AtHorizon(now, end) == now >= end

\* line 70: the popped event lies beyond the horizon
Expired(now, end) == now > end

\* a server counted free when all are busy
FreeServer_OffByOne(occupied, servers) == occupied <= servers

\* line 75: a server is free
FreeServer(occupied, servers) == occupied < servers

\* the server of a finished job is not released
ReleaseServer_Forgotten(occupied) == occupied

\* line 91: a job is done, its server is free
ReleaseServer(occupied) == occupied - 1

\* the newest waiting job is taken instead of the oldest (deque.pop)
popleft_Newest(q) == [value |-> q[Len(q)], rest |-> SubSeq(q, 1, Len(q) - 1)]

\* line 100: queue.popleft() returns the oldest timestamp and removes it
popleft(q) == [value |-> Head(q), rest |-> Tail(q)]

\* the area is taken with the queue length after the change
SampleQueueDepth_AfterChange(st, q, now, last) ==
    [st EXCEPT !.avg_queue_depth = @ + (now - last) * (Len(q) + 1)]

\* lines 83 and 98: add the area under the queue-depth curve since the last sample
SampleQueueDepth(st, q, now, last) ==
    [st EXCEPT !.avg_queue_depth = @ + (now - last) * Len(q)]

\* line 84
RecordMaxDepth(st, q) ==
    [st EXCEPT !.max_queue_depth = Max(@, Len(q))]

\* a wait equal to the threshold is counted as exceeding it
RecordWait_AtThreshold(st, wait_time, threshold) ==
    LET st1 == [st EXCEPT !.avg_wait_time = @ + wait_time]
    IN  IF wait_time >= threshold
        THEN [st1 EXCEPT !.wait_gt_twait = @ + 1]
        ELSE [st1 EXCEPT !.wait_lt_twait = @ + 1]

\* lines 103-108
RecordWait(st, wait_time, threshold) ==
    LET st1 == [st EXCEPT !.avg_wait_time = @ + wait_time]
    IN  IF wait_time > threshold
        THEN [st1 EXCEPT !.wait_gt_twait = @ + 1]
        ELSE [st1 EXCEPT !.wait_lt_twait = @ + 1]

\* the completion is not counted
RecordDone_Uncounted(st, completion_time) ==
    [st EXCEPT !.avg_completion_time = @ + completion_time]

\* lines 93-95
RecordDone(st, completion_time) ==
    [st EXCEPT !.done_events = @ + 1,
               !.avg_completion_time = @ + completion_time]

\* lines 65, 110, 115: wallclock_end - wallclock_start, whatever the clock gives
ElapsedTimes == 0..MaxElapsed

\* the exact quotient a / b
Frac(a, b) == [num |-> a, den |-> b]

Dispatched(now, evtype, start, q) ==
    [now |-> now, evtype |-> evtype, start |-> start, qlen |-> Len(q)]

----------------------------------------------------------------------------
(* Initial states: simulate() is about to be called *)

InitState ==
    /\ pc = "start"
    /\ events = <<>>
    /\ queue = <<>>
    /\ servers_occupied = 0
    /\ last_queue_update = 0
    /\ stats = <<>>
    /\ trace = <<>>

\* the configurations of section 6: positive rates, c >= 1, threshold >= 0
ValidParams ==
    [l : {Val("float", 1)},
     u : {Val("float", k) : k \in Rates},
     c : {Val("int", k) : k \in 1..MaxC},
     twait : {Val("float", k) : k \in 0..MaxTwait},
     endtime : {Val("float", k) : k \in (0 - 1)..MaxEnd}]

Init ==
    /\ params \in ValidParams
    /\ InitState

\* any dictionary: missing values, values of the wrong type, rates and server
\* counts that are zero or negative
AnyParams ==
    [l : {Val("NoneType", 0)} \cup {Val("float", k) : k \in (0 - 1)..1},
     u : {Val("float", k) : k \in {0 - 1, 0} \cup Rates},
     c : {Val("NoneType", 0), Val("float", 1)} \cup {Val("int", k) : k \in (0 - 1)..MaxC},
     twait : {Val("float", 0)},
     endtime : {Val("float", k) : k \in {0, MaxEnd}}]

InitAnyConfig ==
    /\ params \in AnyParams
    /\ InitState

----------------------------------------------------------------------------
(* Lines 37-63: read the parameters, create state and statistics *)

SetupWith(dt) ==
    /\ pc = "start"
    /\ IF ~get_param_ok(params, "l", Number) \/ ~get_param_ok(params, "u", Number)
       THEN pc' = "SystemExit@28" /\ UNCHANGED <<events, stats>>
       ELSE IF u = 0
       THEN pc' = "ZeroDivisionError@39" /\ UNCHANGED <<events, stats>>
       ELSE IF \/ ~get_param_ok(params, "c", {"int"})
               \/ ~get_param_ok(params, "twait", Number)
               \/ ~get_param_ok(params, "endtime", Number)
       THEN pc' = "SystemExit@28" /\ UNCHANGED <<events, stats>>
       ELSE IF l = 0
       THEN pc' = "ZeroDivisionError@45" /\ UNCHANGED <<events, stats>>
       ELSE /\ events' = <<Event(dt, ev_input, None)>>
            /\ stats' = InitialStats
            /\ pc' = "loop"
    /\ UNCHANGED <<params, queue, servers_occupied, last_queue_update, trace>>

\* line 45: the first interarrival draw
Setup == \E dt \in Expovariate(l) : SetupWith(dt)

----------------------------------------------------------------------------
(* Lines 67-88: pop an Arrival within the horizon and dispatch it *)

ArrivalWith(dt) ==
    /\ pc = "loop"
    /\ \E i \in heappop(events) :
       LET now == events[i][1]
           evtype == events[i][2]
           start == events[i][3]
           popped == Without(events, i)
           counted == [stats EXCEPT !.input_events = @ + 1]
       IN  /\ ~Expired(now, endtime)
           /\ evtype = ev_input
           /\ stats.input_events < MaxArrivals
           /\ IF FreeServer(servers_occupied, c)
              THEN IF Len(queue) # 0
                   THEN /\ pc' = "AssertionError@77"
                        /\ events' = popped
                        /\ stats' = counted
                        /\ UNCHANGED <<queue, servers_occupied, last_queue_update, trace>>
                   ELSE /\ servers_occupied' = servers_occupied + 1
                        /\ stats' = [counted EXCEPT !.served_immediately = @ + 1]
                        /\ events' = heappush(heappush(popped, Event(now + d, ev_done, now)),
                                              Event(now + dt, ev_input, None))
                        /\ trace' = Append(trace, Dispatched(now, evtype, start, queue))
                        /\ UNCHANGED <<pc, queue, last_queue_update>>
              ELSE /\ stats' = RecordMaxDepth(
                                  SampleQueueDepth(counted, queue, now, last_queue_update),
                                  queue)
                   /\ last_queue_update' = now
                   /\ queue' = Append(queue, now)
                   /\ events' = heappush(popped, Event(now + dt, ev_input, None))
                   /\ trace' = Append(trace, Dispatched(now, evtype, start, queue'))
                   /\ UNCHANGED <<pc, servers_occupied>>
    /\ UNCHANGED params

\* line 87: the interarrival draw
Arrival == \E dt \in Expovariate(l) : ArrivalWith(dt)

----------------------------------------------------------------------------
(* Lines 67-71 and 89-108: pop a Completion within the horizon and dispatch it *)

Completion ==
    /\ pc = "loop"
    /\ \E i \in heappop(events) :
       LET now == events[i][1]
           evtype == events[i][2]
           start == events[i][3]
           popped == Without(events, i)
           freed == ReleaseServer(servers_occupied)
           done == RecordDone(stats, now - start)
       IN  /\ ~Expired(now, endtime)
           /\ evtype = ev_done
           /\ IF ~(0 <= freed /\ freed < c)
              THEN /\ pc' = "AssertionError@92"
                   /\ events' = popped
                   /\ servers_occupied' = freed
                   /\ UNCHANGED <<queue, last_queue_update, stats, trace>>
              ELSE IF queue # <<>>
              THEN LET arrived == popleft(queue).value
                   IN  /\ stats' = RecordWait(
                                      SampleQueueDepth(done, queue, now, last_queue_update),
                                      now - arrived, twait)
                       /\ last_queue_update' = now
                       /\ queue' = popleft(queue).rest
                       /\ events' = heappush(popped, Event(now + d, ev_done, arrived))
                       /\ servers_occupied' = freed + 1
                       /\ trace' = Append(trace, Dispatched(now, evtype, start, queue'))
                       /\ UNCHANGED pc
              ELSE /\ stats' = done
                   /\ events' = popped
                   /\ servers_occupied' = freed
                   /\ trace' = Append(trace, Dispatched(now, evtype, start, queue))
                   /\ UNCHANGED <<pc, queue, last_queue_update>>
    /\ UNCHANGED params

----------------------------------------------------------------------------
(* Lines 67-71: the popped event lies beyond the horizon; it is dropped and *)
(* the loop ends.  Line 68 asserts that there is an event to pop.           *)

Cutoff ==
    /\ pc = "loop"
    /\ IF events = <<>>
       THEN pc' = "AssertionError@68" /\ UNCHANGED events
       ELSE \E i \in heappop(events) :
               /\ Expired(events[i][1], endtime)
               /\ events' = Without(events, i)
               /\ pc' = "finalize"
    /\ UNCHANGED <<params, queue, servers_occupied, last_queue_update, stats, trace>>

----------------------------------------------------------------------------
(* Lines 112-122: normalise the statistics and return them.  The divisions  *)
(* run in order and the first one by zero raises ZeroDivisionError.         *)

Finalize ==
    /\ pc = "finalize"
    /\ IF stats.done_events = 0
       THEN pc' = "ZeroDivisionError@112" /\ UNCHANGED stats
       ELSE LET n == stats.done_events
                averaged == [stats EXCEPT
                                !.avg_wait_time = Frac(@, n),
                                !.avg_completion_time = Frac(@, n)]
            IN  IF endtime = 0
                THEN pc' = "ZeroDivisionError@114" /\ stats' = averaged
                ELSE /\ pc' = "returned"
                     /\ \E elapsed \in ElapsedTimes :
                           stats' = [averaged EXCEPT
                                        !.avg_queue_depth = Frac(@, endtime),
                                        !.wait_lt_twait = Frac(@, n),
                                        !.wait_gt_twait = Frac(@, n),
                                        !.served_immediately = Frac(@, n)]
                                     @@ [elapsed_time |-> elapsed,
                                         queue_end_len |-> Len(queue),
                                         events_end_len |-> Len(events)]
    /\ UNCHANGED <<params, events, queue, servers_occupied, last_queue_update, trace>>

----------------------------------------------------------------------------

Next == Setup \/ Arrival \/ Completion \/ Cutoff \/ Finalize

Spec == Init /\ [][Next]_vars

SpecAnyConfig == InitAnyConfig /\ [][Next]_vars

\* The runs whose interarrival draws are all positive (at least one tick):
\* the pending Arrival lies after the Arrival that scheduled it, the first
\* one after time 0.  simulate() is one sequential call that runs until it
\* returns or raises, hence the weak fairness.
RECURSIVE LastArrivalTime(_)
LastArrivalTime(tr) ==
    IF tr = <<>> THEN 0
    ELSE IF tr[Len(tr)].evtype = ev_input THEN tr[Len(tr)].now
    ELSE LastArrivalTime(SubSeq(tr, 1, Len(tr) - 1))

PositiveDraws ==
    \A i \in 1..Len(events) :
        events[i][2] = ev_input => events[i][1] > LastArrivalTime(trace)

SetupPositive == Setup /\ PositiveDraws'

ArrivalPositive == Arrival /\ PositiveDraws'

NextPositiveDraws ==
    \/ SetupPositive
    \/ ArrivalPositive
    \/ Completion
    \/ Cutoff
    \/ Finalize

SpecPositiveDraws == Init /\ [][NextPositiveDraws]_vars /\ WF_vars(NextPositiveDraws)

----------------------------------------------------------------------------
(* What the history says, computed from the dispatched events alone *)

\* the loop is at an event boundary, or has ended
Looping == pc = "loop"
LoopEnded == pc \in {"finalize", "returned", "ZeroDivisionError@112", "ZeroDivisionError@114"}

RECURSIVE CountKind(_, _)
CountKind(tr, kind) ==
    IF tr = <<>> THEN 0
    ELSE (IF Head(tr).evtype = kind THEN 1 ELSE 0) + CountKind(Tail(tr), kind)

\* the largest length the waiting queue had after any dispatched event
RECURSIVE PeakQueueLen(_)
PeakQueueLen(tr) ==
    IF tr = <<>> THEN 0 ELSE Max(Head(tr).qlen, PeakQueueLen(Tail(tr)))

\* the integral of the waiting-queue length over [0, horizon]: the queue is
\* empty until the first event and has length qlen from each event to the next
RECURSIVE BacklogIntegral(_, _)
BacklogIntegral(tr, horizon) ==
    IF tr = <<>> THEN 0
    ELSE LET until == IF Len(tr) = 1 THEN horizon ELSE tr[2].now
         IN  (until - Head(tr).now) * Head(tr).qlen + BacklogIntegral(Tail(tr), horizon)

----------------------------------------------------------------------------
(* C1: at every event boundary of the loop, and once it has ended,         *)
(* 0 <= servers_occupied <= c and the waiting queue is non-empty only when *)
(* every server is occupied; the assertions of lines 77 and 92 never fail. *)

C1_OccupancyInvariant ==
    /\ pc \notin {"AssertionError@77", "AssertionError@92"}
    /\ (Looping \/ LoopEnded) =>
          /\ 0 <= servers_occupied
          /\ servers_occupied <= c
          /\ (queue # <<>> => servers_occupied = c)

\* a backlog behind c busy servers, after arrivals and completions
C1_Witness ==
    /\ Looping
    /\ queue # <<>>
    /\ servers_occupied = c
    /\ c >= 2
    /\ CountKind(trace, ev_done) >= 1

----------------------------------------------------------------------------
(* C2: after any sequence of dispatched events the arrival count is at     *)
(* least the completion count, and they are equal only when no job is in   *)
(* flight: no server is occupied and the waiting queue is empty.           *)

C2_ArrivalsCoverCompletions ==
    (Looping \/ LoopEnded) =>
        /\ stats.input_events >= stats.done_events
        /\ (stats.input_events = stats.done_events =>
               servers_occupied = 0 /\ queue = <<>>)

\* every job that arrived is done, one of them after waiting in the queue
C2_Witness ==
    /\ Looping
    /\ stats.input_events = stats.done_events
    /\ stats.done_events >= 2
    /\ stats.wait_lt_twait + stats.wait_gt_twait >= 1

----------------------------------------------------------------------------
(* C3: when the loop ends, the jobs served immediately plus the jobs that  *)
(* waited (wait_lt_twait + wait_gt_twait, not yet normalised) number the   *)
(* completions, done_events.                                               *)

C3_ImmediatePlusWaitedIsDone ==
    pc = "finalize" =>
        stats.served_immediately + stats.wait_lt_twait + stats.wait_gt_twait
            = stats.done_events

----------------------------------------------------------------------------
(* C4: when the loop ends, the raw counters wait_lt_twait and              *)
(* wait_gt_twait sum to done_events: every completion is counted in        *)
(* exactly one of the two.                                                 *)

C4_ThresholdCountersPartitionDone ==
    pc = "finalize" =>
        stats.wait_lt_twait + stats.wait_gt_twait = stats.done_events

----------------------------------------------------------------------------
(* C5: for a run with horizon > 0, the finalised avg_queue_depth (area     *)
(* divided by endtime) is non-negative and at most max_queue_depth.        *)

C5_AverageDepthWithinMax ==
    (pc = "returned" /\ endtime > 0) =>
        /\ stats.avg_queue_depth.den = endtime
        /\ 0 <= stats.avg_queue_depth.num
        /\ stats.avg_queue_depth.num <= stats.max_queue_depth * stats.avg_queue_depth.den

----------------------------------------------------------------------------
(* C6: the finalised avg_queue_depth is the integral of the waiting-queue  *)
(* length over [0, endtime] divided by endtime, also when the queue is not *)
(* empty at the end of the loop.                                           *)

C6_AverageDepthIsIntegralOverHorizon ==
    pc = "returned" =>
        /\ stats.avg_queue_depth.den = endtime
        /\ stats.avg_queue_depth.num = BacklogIntegral(trace, endtime)

----------------------------------------------------------------------------
(* C7: the reported max_queue_depth is the largest length the waiting      *)
(* queue ever had during the run (0 if no job was queued).                 *)

C7_MaxDepthIsPeakLength ==
    pc = "returned" => stats.max_queue_depth = PeakQueueLen(trace)

----------------------------------------------------------------------------
(* C8: a run that ends its loop with no completion (every run with         *)
(* horizon <= 0 is one) finalises without a division by zero.              *)

C8_NoCompletionFinalises ==
    pc \in {"ZeroDivisionError@112", "ZeroDivisionError@114"} => stats.done_events # 0

----------------------------------------------------------------------------
(* C9: a configuration with a server count, an arrival rate or a service   *)
(* rate that is zero or negative is rejected before the loop starts:       *)
(* simulate() fails without dispatching an event or creating a statistic.  *)

C9_BadConfigRejectedBeforeLoop ==
    (ParamsOk(params) /\ (c <= 0 \/ l <= 0 \/ u <= 0)) =>
        /\ pc \in {"start", "SystemExit@28", "ZeroDivisionError@39", "ZeroDivisionError@45"}
        /\ trace = <<>>
        /\ stats = <<>>

----------------------------------------------------------------------------
(* C10: a popped event is dispatched if and only if its time is at most    *)
(* endtime (an event at exactly endtime is dispatched); the first popped   *)
(* event beyond endtime ends the loop undispatched, and from then on no    *)
(* event is dispatched: occupancy, backlog, heap and the event counts stay *)
(* as they are and a raw counter changes only by being divided.  So every  *)
(* counted Completion has a time within the horizon.                       *)

C10_PopStep ==
    (pc = "loop" /\ events # <<>>) =>
        IF Head(events)[1] <= endtime
        THEN /\ pc' \in {"loop", "AssertionError@77", "AssertionError@92"}
             /\ pc' = "loop" =>
                  /\ Len(trace') = Len(trace) + 1
                  /\ trace'[Len(trace')].now = Head(events)[1]
                  /\ trace'[Len(trace')].evtype = Head(events)[2]
        ELSE /\ pc' = "finalize"
             /\ events' = Tail(events)
             /\ UNCHANGED <<queue, servers_occupied, last_queue_update, stats, trace>>

C10_AfterCutoff ==
    LoopEnded =>
        /\ LoopEnded'
        /\ UNCHANGED <<events, queue, servers_occupied, last_queue_update, trace>>
        /\ stats'.input_events = stats.input_events
        /\ stats'.done_events = stats.done_events
        /\ stats'.max_queue_depth = stats.max_queue_depth
        /\ IF pc' = "returned"
           THEN /\ stats'.served_immediately.num = stats.served_immediately
                /\ stats'.wait_lt_twait.num = stats.wait_lt_twait
                /\ stats'.wait_gt_twait.num = stats.wait_gt_twait
           ELSE /\ stats'.served_immediately = stats.served_immediately
                /\ stats'.wait_lt_twait = stats.wait_lt_twait
                /\ stats'.wait_gt_twait = stats.wait_gt_twait

C10_CountedWithinHorizon ==
    (Looping \/ LoopEnded) =>
        /\ \A i \in 1..Len(trace) : trace[i].now <= endtime
        /\ stats.done_events = CountKind(trace, ev_done)
        /\ stats.input_events = CountKind(trace, ev_input)

C10_HorizonCutoff ==
    /\ []C10_CountedWithinHorizon
    /\ [][C10_PopStep /\ C10_AfterCutoff]_vars

\* the loop has ended after dispatching an event at exactly endtime, and a
\* Completion beyond the horizon is left in the heap, uncounted
C10_Witness ==
    /\ pc = "finalize"
    /\ trace # <<>>
    /\ trace[Len(trace)].now = endtime
    /\ stats.done_events >= 1
    /\ \E i \in 1..Len(events) : events[i][2] = ev_done /\ events[i][1] > endtime

----------------------------------------------------------------------------
(* C11: jobs leave the backlog in FIFO order.  A Completion that finds a   *)
(* non-empty queue starts service for the oldest timestamp in it; jobs     *)
(* begin service, and their Completions are dispatched, in non-decreasing  *)
(* order of arrival time, and no job overtakes an earlier arrival.         *)

\* the arrival timestamps of the jobs in service: payloads of the pending Completions
InService(heap) == {heap[i][3] : i \in {j \in 1..Len(heap) : heap[j][2] = ev_done}}

\* how many pending Completions carry arrival timestamp a
PendingFor(heap, a) == Cardinality({i \in 1..Len(heap) : heap[i][2] = ev_done /\ heap[i][3] = a})

\* the arrival timestamps of the Completions dispatched, in dispatch order
RECURSIVE CompletedStarts(_)
CompletedStarts(tr) ==
    IF tr = <<>> THEN <<>>
    ELSE (IF Head(tr).evtype = ev_done THEN <<Head(tr).start>> ELSE <<>>)
         \o CompletedStarts(Tail(tr))

NonDecreasing(seq) == \A i \in 1..Len(seq) : \A j \in i..Len(seq) : seq[i] <= seq[j]

C11_ArrivalOrderKept ==
    Looping \/ LoopEnded =>
        /\ NonDecreasing(queue)
        /\ NonDecreasing(CompletedStarts(trace))
        \* a job in service arrived no earlier than any completed job ...
        /\ \A a \in InService(events) :
              \A i \in 1..Len(trace) : trace[i].evtype = ev_done => trace[i].start <= a
        \* ... and no later than any job still waiting
        /\ \A a \in InService(events) : \A i \in 1..Len(queue) : a <= queue[i]

C11_DequeueOldest ==
    (/\ pc = "loop" /\ pc' = "loop"
     /\ events # <<>>
     /\ Head(events)[2] = ev_done
     /\ queue # <<>>) =>
        /\ \A i \in 1..Len(queue) : queue[1] <= queue[i]
        /\ queue' = Tail(queue)
        /\ \A a \in InService(events') \cup {queue[1]} :
              PendingFor(events', a) =
                  PendingFor(Tail(events), a) + (IF a = queue[1] THEN 1 ELSE 0)

C11_Fifo ==
    /\ []C11_ArrivalOrderKept
    /\ [][C11_DequeueOldest]_vars

\* a Completion took a job from a backlog of two that arrived at different
\* times; the older one is in service, the newer one still waits
C11_Witness ==
    /\ Looping
    /\ trace # <<>>
    /\ trace[Len(trace)].evtype = ev_done
    /\ trace[Len(trace)].qlen >= 1
    /\ \E a \in InService(events) : a < queue[1]

----------------------------------------------------------------------------
(* C12: determinism.  Two runs with the same parameters and the same       *)
(* sequence of interarrival draws dispatch exactly the same sequence of    *)
(* events and end with identical values of every statistic; nothing else   *)
(* is nondeterministic, timestamp ties included.  Stated on the step       *)
(* relation: from any reachable state, the step that consumes a given draw *)
(* has exactly one successor, so that two runs that agree on the           *)
(* parameters and on the draws agree on every state, the dispatched        *)
(* events (trace) and the returned statistics (stats) included.            *)

\* one step of the run when the next interarrival draw is dt
StepWith(dt) == SetupWith(dt) \/ ArrivalWith(dt) \/ Completion \/ Cutoff \/ Finalize

\* what a run shows except the wall-clock reading
Observable ==
    <<params, pc, events, queue, servers_occupied, last_queue_update, trace,
      IF pc = "returned"
      THEN [k \in DOMAIN stats \ {"elapsed_time"} |-> stats[k]]
      ELSE stats>>

\* C12 as stated: the draw fixes the whole next state, every statistic included
C12_SameDrawsSameStatistics ==
    [][\A dt \in Expovariate(l) :
          StepWith(dt) =>
             \A v \in {vars'} : ~ENABLED (StepWith(dt) /\ vars' # v)]_vars

(* C12 as amended: two runs with the same parameters and the same draws    *)
(* dispatch the same sequence of events and end with identical values of   *)
(* every statistic except elapsed_time, the wall-clock duration of the     *)
(* run; timestamp ties bring no nondeterminism.                            *)
C12_Deterministic ==
    [][\A dt \in Expovariate(l) :
          StepWith(dt) =>
             \A v \in {Observable'} : ~ENABLED (StepWith(dt) /\ Observable' # v)]_vars

\* a run that dispatched two events of different kinds at one time has returned
C12_Witness ==
    /\ pc = "returned"
    /\ \E i \in 1..(Len(trace) - 1) :
          /\ trace[i].now = trace[i + 1].now
          /\ trace[i].evtype # trace[i + 1].evtype

----------------------------------------------------------------------------
(* C13: when the completion count is positive at the end of the loop, the  *)
(* three ratios of finalisation, wait_lt_twait / done_events,              *)
(* wait_gt_twait / done_events and served_immediately / done_events        *)
(* (reported as P(wait = 0)), lie in [0, 1].                               *)

IsProbability(q) == 0 <= q.num /\ q.num <= q.den

C13_RatiosAreProbabilities ==
    pc = "returned" =>
        /\ IsProbability(stats.wait_lt_twait)
        /\ IsProbability(stats.wait_gt_twait)
        /\ IsProbability(stats.served_immediately)

----------------------------------------------------------------------------
(* C14: events are dispatched in strictly increasing time order: of two    *)
(* consecutively dispatched events the later has the greater time.         *)

C14_StrictlyIncreasingTimes ==
    \A i \in 1..Len(trace) - 1 : trace[i].now < trace[i + 1].now

(* C14 as amended: events are dispatched in non-decreasing time order.     *)
(* Each pop returns a pending event of the smallest time, and no event is  *)
(* pushed with a time below that of the event being dispatched.            *)

C14_PopsEarliest ==
    (pc = "loop" /\ pc' = "loop" /\ events # <<>>) =>
        /\ \A i \in 1..Len(events) : Head(events)[1] <= events[i][1]
        /\ trace'[Len(trace')].now = Head(events)[1]
        /\ \A i \in 1..Len(events') : Head(events)[1] <= events'[i][1]

C14_TimesNeverDecrease ==
    \A i \in 1..Len(trace) - 1 : trace[i].now <= trace[i + 1].now

C14_NonDecreasingTimes ==
    /\ []C14_TimesNeverDecrease
    /\ [][C14_PopsEarliest]_vars

\* two events were dispatched at the same time, and later ones after them
C14_Witness ==
    /\ Looping
    /\ Len(trace) >= 4
    /\ \E i \in 1..Len(trace) - 1 : trace[i].now = trace[i + 1].now
    /\ \E i \in 1..Len(trace) - 1 : trace[i].now < trace[i + 1].now

----------------------------------------------------------------------------
(* C15: termination.  With a finite horizon, c >= 1, a positive service    *)
(* time and interarrival draws bounded below by a positive constant, the   *)
(* loop eventually pops an event beyond endtime and ends.                  *)

C15_LoopTerminates == <>LoopEnded

\* the loop has ended after dispatching Arrivals and Completions, short of
\* the bound on the arrivals of a run
C15_Witness ==
    /\ pc = "finalize"
    /\ Len(trace) >= 5
    /\ stats.done_events >= 2
    /\ stats.input_events < MaxArrivals

----------------------------------------------------------------------------
(* C16: ties follow the tuple order (time, kind, payload).  A pending      *)
(* Arrival is dispatched before a pending Completion of the same time, and *)
(* of two Completions of the same time the one with the smaller arrival    *)
(* timestamp goes first.  So an Arrival that coincides with a Completion   *)
(* while all c servers are busy is queued, not counted as served           *)
(* immediately, and is then dequeued by that Completion with wait 0.       *)

C16_TieOrder ==
    \A i \in 1..Len(trace) : \A j \in i..Len(trace) :
        trace[i].now = trace[j].now =>
            /\ ~(trace[i].evtype = ev_done /\ trace[j].evtype = ev_input)
            /\ (trace[i].evtype = ev_done /\ trace[j].evtype = ev_done
                   => trace[i].start <= trace[j].start)

\* the event popped is the least pending one in (time, kind, payload)
C16_PopOrder ==
    (pc = "loop" /\ pc' = "loop" /\ events # <<>>) =>
        /\ \A i \in 1..Len(events) :
              events[i][1] = Head(events)[1] =>
                  /\ Head(events)[2] <= events[i][2]
                  /\ (Head(events)[2] = ev_done /\ events[i][2] = ev_done
                         => Head(events)[3] <= events[i][3])
        /\ trace'[Len(trace')].evtype = Head(events)[2]
        /\ trace'[Len(trace')].start = Head(events)[3]

\* a Completion of time t is pending
CompletionPendingAt(heap, t) ==
    \E i \in 1..Len(heap) : heap[i][2] = ev_done /\ heap[i][1] = t

\* an Arrival that falls on a Completion with every server busy is queued
C16_QueuedAtTie ==
    (/\ pc = "loop" /\ pc' = "loop"
     /\ events # <<>>
     /\ Head(events)[2] = ev_input
     /\ servers_occupied = c
     /\ CompletionPendingAt(events, Head(events)[1])) =>
        /\ queue' = Append(queue, Head(events)[1])
        /\ stats'.served_immediately = stats.served_immediately
        /\ servers_occupied' = servers_occupied

\* the step is a Completion dispatched right after an Arrival of the same
\* time that was put in the queue
TieCompletion ==
    /\ pc = "loop" /\ pc' = "loop"
    /\ events # <<>>
    /\ Head(events)[2] = ev_done
    /\ trace # <<>>
    /\ trace[Len(trace)].evtype = ev_input
    /\ trace[Len(trace)].now = Head(events)[1]
    /\ queue # <<>>
    /\ queue[Len(queue)] = Head(events)[1]

\* ... and that Completion takes this Arrival into service with wait 0
C16_DequeuedAtTieWithWaitZero ==
    TieCompletion =>
        /\ stats'.avg_wait_time = stats.avg_wait_time
        /\ stats'.wait_lt_twait = stats.wait_lt_twait + 1
        /\ PendingFor(events', Head(events)[1])
              = PendingFor(Tail(events), Head(events)[1]) + 1

C16_TieBreakAndZeroWait ==
    /\ []C16_TieOrder
    /\ [][C16_PopOrder /\ C16_QueuedAtTie /\ C16_DequeuedAtTieWithWaitZero]_vars

(* C16 as amended: the same order of ties and the same queueing of the     *)
(* Arrival; the Completion then takes the oldest waiting job into service, *)
(* which is this Arrival, with wait 0, when no older job was waiting.      *)

C16_DequeuedAtTieOldestFirst ==
    TieCompletion =>
        /\ stats'.avg_wait_time = stats.avg_wait_time + (Head(events)[1] - queue[1])
        /\ PendingFor(events', queue[1]) = PendingFor(Tail(events), queue[1]) + 1
        /\ queue' = Tail(queue)
        /\ Len(queue) = 1 =>
              /\ stats'.avg_wait_time = stats.avg_wait_time
              /\ stats'.wait_lt_twait = stats.wait_lt_twait + 1

C16_TieBreak ==
    /\ []C16_TieOrder
    /\ [][C16_PopOrder /\ C16_QueuedAtTie /\ C16_DequeuedAtTieOldestFirst]_vars

\* an Arrival fell on a Completion with every server busy and nobody
\* waiting; it was queued and that Completion has put it in service
C16_Witness ==
    /\ Looping
    /\ Len(trace) >= 3
    /\ trace[Len(trace)].evtype = ev_done
    /\ trace[Len(trace) - 1].evtype = ev_input
    /\ trace[Len(trace) - 1].now = trace[Len(trace)].now
    /\ trace[Len(trace) - 1].qlen = 1
    /\ trace[Len(trace)].qlen = 0
    /\ PendingFor(events, trace[Len(trace)].now) >= 1
    /\ stats.wait_lt_twait >= 1
    /\ stats.avg_wait_time = 0

----------------------------------------------------------------------------
(* C17: at every event boundary the raw queue-depth accumulator is the     *)
(* integral of the waiting-queue length over [0, last_queue_update].  The  *)
(* queue length changes only in a step that first adds                     *)
(* (now - last_queue_update) * len(queue), with the length before the      *)
(* change, and then sets last_queue_update = now; last_queue_update never  *)
(* decreases.                                                              *)

Min(a, b) == IF a <= b THEN a ELSE b

\* the integral of the waiting-queue length over [0, upto]
RECURSIVE BacklogIntegralTo(_, _)
BacklogIntegralTo(tr, upto) ==
    IF tr = <<>> THEN 0
    ELSE LET from == Min(Head(tr).now, upto)
             until == IF Len(tr) = 1 THEN upto ELSE Min(tr[2].now, upto)
         IN  (until - from) * Head(tr).qlen + BacklogIntegralTo(Tail(tr), upto)

C17_AreaIsIntegral ==
    (Looping \/ pc = "finalize") =>
        stats.avg_queue_depth = BacklogIntegralTo(trace, last_queue_update)

C17_SampledAtEachChange ==
    (pc = "loop" /\ pc' = "loop" /\ events # <<>>) =>
        /\ last_queue_update' >= last_queue_update
        /\ IF Len(queue') # Len(queue)
           THEN /\ last_queue_update' = Head(events)[1]
                /\ stats'.avg_queue_depth = stats.avg_queue_depth
                      + (Head(events)[1] - last_queue_update) * Len(queue)
           ELSE /\ queue' = queue
                /\ last_queue_update' = last_queue_update
                /\ stats'.avg_queue_depth = stats.avg_queue_depth

C17_ExactArea ==
    /\ []C17_AreaIsIntegral
    /\ [][C17_SampledAtEachChange]_vars

\* the queue grew and shrank at different times and has been empty since
\* the last sample, with a positive area accumulated
C17_Witness ==
    /\ Looping
    /\ stats.avg_queue_depth >= 2
    /\ stats.wait_lt_twait + stats.wait_gt_twait >= 2
    /\ trace[Len(trace)].now > last_queue_update

----------------------------------------------------------------------------
(* C18: at every event boundary the heap holds exactly one pending Arrival *)
(* and exactly servers_occupied pending Completions, servers_occupied + 1  *)
(* <= c + 1 events in all; the assertion of line 68 never fails; and the   *)
(* reported events_end_len is the number of servers busy at the cutoff.    *)

CountPending(heap, kind) == Cardinality({i \in 1..Len(heap) : heap[i][2] = kind})

C18_HeapContents ==
    /\ pc # "AssertionError@68"
    /\ Looping =>
          /\ CountPending(events, ev_input) = 1
          /\ CountPending(events, ev_done) = servers_occupied
          /\ Len(events) = servers_occupied + 1
          /\ Len(events) <= c + 1
    /\ LoopEnded => Len(events) = servers_occupied
    /\ pc = "returned" => stats.events_end_len = servers_occupied

\* a run returned with every one of two servers busy at the cutoff
C18_Witness ==
    /\ pc = "returned"
    /\ c = 2
    /\ stats.events_end_len = 2
    /\ CountPending(events, ev_done) = 2

----------------------------------------------------------------------------
(* C19: job conservation.  At every event boundary input_events =          *)
(* done_events + servers_occupied + len(queue): every job that arrived is  *)
(* waiting, in service or completed, none is lost or completed twice.      *)

C19_JobConservation ==
    (Looping \/ LoopEnded) =>
        stats.input_events = stats.done_events + servers_occupied + Len(queue)

\* jobs in each of the three states at once
C19_Witness ==
    /\ Looping
    /\ stats.done_events >= 1
    /\ servers_occupied >= 2
    /\ Len(queue) >= 1

----------------------------------------------------------------------------
(* C20: service-start accounting.  At every event boundary, before the     *)
(* normalisation, served_immediately + wait_lt_twait + wait_gt_twait =     *)
(* done_events + servers_occupied and wait_lt_twait + wait_gt_twait <=     *)
(* done_events; each accumulated wait now - arrived is >= 0 and goes into  *)
(* exactly one of the two counters, a wait equal to twait into             *)
(* wait_lt_twait.                                                          *)

C20_StartsCounted ==
    (Looping \/ pc = "finalize") =>
        /\ stats.served_immediately + stats.wait_lt_twait + stats.wait_gt_twait
              = stats.done_events + servers_occupied
        /\ stats.wait_lt_twait + stats.wait_gt_twait <= stats.done_events

C20_WaitClassified ==
    (pc = "loop" /\ pc' = "loop" /\ events # <<>>) =>
        IF Head(events)[2] = ev_done /\ queue # <<>>
        THEN LET wait == Head(events)[1] - queue[1]
             IN  /\ wait >= 0
                 /\ stats'.avg_wait_time = stats.avg_wait_time + wait
                 /\ IF wait <= twait
                    THEN /\ stats'.wait_lt_twait = stats.wait_lt_twait + 1
                         /\ stats'.wait_gt_twait = stats.wait_gt_twait
                    ELSE /\ stats'.wait_gt_twait = stats.wait_gt_twait + 1
                         /\ stats'.wait_lt_twait = stats.wait_lt_twait
        ELSE /\ stats'.avg_wait_time = stats.avg_wait_time
             /\ stats'.wait_lt_twait = stats.wait_lt_twait
             /\ stats'.wait_gt_twait = stats.wait_gt_twait

C20_ServiceStartAccounting ==
    /\ []C20_StartsCounted
    /\ [][C20_WaitClassified]_vars

\* waits on both sides of the threshold were counted, and the job last put
\* in service waited exactly twait > 0
C20_Witness ==
    /\ Looping
    /\ twait >= 1
    /\ stats.wait_lt_twait >= 1
    /\ stats.wait_gt_twait >= 1
    /\ trace[Len(trace)].evtype = ev_done
    /\ \E i \in 1..Len(events) :
          /\ events[i][2] = ev_done
          /\ events[i][1] = trace[Len(trace)].now + d
          /\ trace[Len(trace)].now - events[i][3] = twait

====
